---- MODULE Spec2Model ----
(***************************************************************************)
(* A model of the OpenCode supervisor library.                             *)
(*                                                                         *)
(* The repository holds two revisions of the library:                      *)
(*   "root"  src/opencode.go           (ConfigFS staging, Cleanup,         *)
(*                                      context-based WaitForReady)        *)
(*   "pkg"   src/pkg/opencode/opencode.go (exit watcher, liveness probe,   *)
(*                                      attempt-count WaitForReady,        *)
(*                                      API client, StreamEvents)          *)
(* The variable `variant` fixes which revision an instance is built from.  *)
(* Callers are threads; every blocking point of the code is a value of pc. *)
(***************************************************************************)
EXTENDS Integers, Sequences, FiniteSets, TLC

\* ---------------------------------------------------------------- bounds
NumThreads == 2

MaxProcs == 2

MaxDirs == 2

NumFiles == 2

\* The largest maxAttempts a caller passes to WaitForReady.
MaxAttempts == 3

\* The largest number of lines a server writes to one event stream.
MaxFrames == 3

Threads == 1..NumThreads

Pids == 1..MaxProcs

DirIds == 1..MaxDirs

\* Ports the operating system may hand out for a bind to port 0.
Ports == {"49152", "49153"}

\* An address supplied at construction (opencode_test.go uses this one).
SuppliedAddr == "localhost:8080"

VARIABLES
  variant,    \* "root" or "pkg": the revision of the library
  cfgFS,      \* config.ConfigFS != nil (root only)
  mu,         \* oc.mu: 0 when free, else the thread holding it
  cmd,        \* oc.cmd: [alloc |-> oc.cmd != nil, pid |-> Process (0: nil)]
  addr,       \* oc.config.Addr ("" when unset)
  configDir,  \* oc.configDir: 0 for "", else the id of the staged directory
  procs,      \* the operating system's view of each child process
  nspawn,     \* number of children spawned so far
  watch,      \* the exit watcher goroutine of each child (pkg)
  wtarget,    \* the process each watcher waits on
  dirs,       \* the file system: each staged directory
  ndirs,      \* number of directory names generated so far
  pc,         \* each thread's position
  ret,        \* the value each thread's call returns ("none" between calls)
  w,          \* each thread's WaitForReady call: its arguments and locals
  snap,       \* history: the instance's fields when the lock was last taken
  killed,     \* history: the children a kill signal was delivered to
  st,         \* each thread's StreamEvents call: the lines read from the
              \* body, the handler invocations made and why the body ended
  pe,         \* the ParseEvent call: its argument and its result
  api         \* each thread's API client call: the operation, the URL of
              \* its request, the response and the result

vars == <<variant, cfgFS, mu, cmd, addr, configDir, procs, nspawn, watch,
          wtarget, dirs, ndirs, pc, ret, w, snap, killed, st, pe,
          api>>

\* --------------------------------------------------------------- helpers
\* What an API client call returns: the error ("none": nil) and the value.
Result(e, id, role, parts) ==
  [err |-> e, ID |-> id, Role |-> role, Parts |-> parts]

\* No API client call.
NoApi == [op |-> "none", url |-> "", status |-> 0,
          body |-> [wf |-> FALSE, infoParts |-> <<>>],
          out |-> Result("none", "", "", <<>>)]

\* No ParseEvent call.
NoParse == [called |-> FALSE,
            data |-> [type |-> "", shape |-> "object", properties |-> <<>>],
            out |-> [err |-> TRUE, variant |-> "nil", Type |-> "",
                     Properties |-> <<>>]]

\* No StreamEvents call.
NoStream == [sent |-> <<>>, delivered |-> <<>>, end |-> "none"]

NilCmd == [alloc |-> FALSE, pid |-> 0]

\* oc.cmd != nil && oc.cmd.Process != nil
Live(c) == c.alloc /\ c.pid # 0

\* fmt.Sprintf("127.0.0.1:%d", port)
AddrOf(port) == "127.0.0.1:" \o port

\* No WaitForReady call. max, i are the argument and loop variable of the
\* attempt-count convention, k the poll on which the health endpoint first
\* answers and polls the number of health requests issued; tmo, canc, ctx,
\* ppc are the timeout argument of the context convention, whether the
\* caller's context can be cancelled, the state of the context the call
\* polls under and the position of the polling goroutine.
NoWait == [max |-> 0, i |-> 0, k |-> 1, polls |-> 0, tmo |-> FALSE,
           canc |-> FALSE, ctx |-> "live", ppc |-> "none"]

\* maxAttempts as callers pass it (zero and negative included).
AttemptArgs == (0 - 1)..MaxAttempts

\* The poll on which the server first answers; MaxAttempts + 1: never.
AnswerAts == 1..(MaxAttempts + 1)

NoDir == [exists |-> FALSE, files |-> 0]

\* The fields of the instance that Start, Stop and Cleanup work on.
Fields == [cmd |-> cmd, addr |-> addr, configDir |-> configDir,
           nspawn |-> nspawn, ndirs |-> ndirs]

\* An unrecovered panic in a goroutine ends the whole program.
Crashed == \E p \in Pids : watch[p] = "panic"

StartPcs == {"start_lock", "start_check", "start_listen", "start_stage",
             "start_spawn", "start_probe", "start_ret"}

StopPcs == {"stop_lock", "stop_body", "stop_ret"}

CleanupPcs == {"cleanup_lock", "cleanup_body", "cleanup_ret"}

\* Starts that may still spawn a child or stage a directory.
PendingStarts == Cardinality({t \in Threads : pc[t] \in StartPcs \ {"start_ret"}})

Goto(t, l) == pc' = [pc EXCEPT ![t] = l]

Return(t, l, r) == /\ pc' = [pc EXCEPT ![t] = l]
                   /\ ret' = [ret EXCEPT ![t] = r]

\* ------------------------------------------------------------------ Init
Init ==
  /\ variant \in {"root", "pkg"}
  /\ cfgFS \in (IF variant = "root" THEN BOOLEAN ELSE {FALSE})
  /\ mu = 0
  /\ cmd = NilCmd
  /\ addr \in {"", SuppliedAddr}
  /\ configDir = 0
  /\ procs = [p \in Pids |-> "none"]
  /\ nspawn = 0
  /\ watch = [p \in Pids |-> "none"]
  /\ wtarget = [p \in Pids |-> 0]
  /\ dirs = [d \in DirIds |-> NoDir]
  /\ ndirs = 0
  /\ pc = [t \in Threads |-> "idle"]
  /\ ret = [t \in Threads |-> "none"]
  /\ w = [t \in Threads |-> NoWait]
  /\ snap = Fields
  /\ killed = {}
  /\ st = [t \in Threads |-> NoStream]
  /\ pe = NoParse
  /\ api = [t \in Threads |-> NoApi]

\* ----------------------------------------------------------------- Start
\* A caller enters Start. The guard keeps the counters within the bounds.
CallStart(t) ==
  /\ ~Crashed
  /\ pc[t] = "idle"
  /\ nspawn + PendingStarts < MaxProcs
  /\ ndirs + PendingStarts < MaxDirs
  /\ Return(t, "start_lock", "none")
  /\ UNCHANGED <<variant, cfgFS, mu, cmd, addr, configDir, procs, nspawn,
                 watch, wtarget, dirs, ndirs, w, snap, killed, st, pe,
                 api>>

\* Start entering its body without waiting for the lock.
StartLockNoWait(t) ==
  /\ ~Crashed
  /\ pc[t] = "start_lock"
  /\ mu' = t
  /\ snap' = Fields
  /\ Goto(t, "start_check")
  /\ UNCHANGED <<variant, cfgFS, cmd, addr, configDir, procs, nspawn, watch,
                 wtarget, dirs, ndirs, ret, w, killed, st, pe, api>>

\* oc.mu.Lock()
StartLock(t) ==
  /\ ~Crashed
  /\ pc[t] = "start_lock"
  /\ mu = 0
  /\ mu' = t
  /\ snap' = Fields
  /\ Goto(t, "start_check")
  /\ UNCHANGED <<variant, cfgFS, cmd, addr, configDir, procs, nspawn, watch,
                 wtarget, dirs, ndirs, ret, w, killed, st, pe, api>>

\* Start without its guard: it goes on to spawn whatever the handle holds.
StartCheckSkipped(t) ==
  /\ ~Crashed
  /\ pc[t] = "start_check"
  /\ Goto(t, "start_listen")
  /\ UNCHANGED <<variant, cfgFS, mu, cmd, addr, configDir, procs, nspawn,
                 watch, wtarget, dirs, ndirs, ret, w, snap, killed, st, pe,
                 api>>

\* if oc.cmd != nil && oc.cmd.Process != nil { return "already running" }
StartCheck(t) ==
  /\ ~Crashed
  /\ pc[t] = "start_check"
  /\ IF Live(cmd)
       THEN Return(t, "start_ret", "AlreadyRunning")
       ELSE Goto(t, "start_listen") /\ UNCHANGED ret
  /\ UNCHANGED <<variant, cfgFS, mu, cmd, addr, configDir, procs, nspawn,
                 watch, wtarget, dirs, ndirs, w, snap, killed, st, pe,
                 api>>

\* net.Listen("tcp", "127.0.0.1:0"); oc.config.Addr = Sprintf(...)
StartListen(t) ==
  /\ ~Crashed
  /\ pc[t] = "start_listen"
  /\ \/ /\ Return(t, "start_ret", "PortAllocationFailed")
        /\ UNCHANGED addr
     \/ /\ \E port \in Ports : addr' = AddrOf(port)
        /\ Goto(t, IF variant = "root" THEN "start_stage" ELSE "start_spawn")
        /\ UNCHANGED ret
  /\ UNCHANGED <<variant, cfgFS, mu, cmd, configDir, procs, nspawn, watch,
                 wtarget, dirs, ndirs, w, snap, killed, st, pe, api>>

\* A staging step that goes on to spawn the child after a failed walk.
StartStageIgnoresError(t) ==
  /\ ~Crashed
  /\ pc[t] = "start_stage"
  /\ IF ~cfgFS
       THEN UNCHANGED <<configDir, dirs, ndirs>>
       ELSE /\ ndirs' = ndirs + 1
            /\ configDir' = ndirs + 1
            /\ \E k \in 0..NumFiles :
                 dirs' = [dirs EXCEPT ![ndirs + 1] =
                            [exists |-> TRUE, files |-> k]]
  /\ Goto(t, "start_spawn")
  /\ UNCHANGED <<variant, cfgFS, mu, cmd, addr, procs, nspawn, watch, wtarget,
                 ret, w, snap, killed, st, pe, api>>

\* if oc.config.ConfigFS != nil { ... fs.WalkDir ... }
StartStage(t) ==
  /\ ~Crashed
  /\ pc[t] = "start_stage"
  /\ IF ~cfgFS
       THEN /\ Goto(t, "start_spawn")
            /\ UNCHANGED <<ret, configDir, dirs, ndirs>>
       ELSE \/ \* rand.Read fails
               /\ Return(t, "start_ret", "ConfigStagingFailed")
               /\ UNCHANGED <<configDir, dirs, ndirs>>
            \/ \* oc.configDir is assigned, then os.MkdirAll fails
               /\ ndirs' = ndirs + 1
               /\ configDir' = ndirs + 1
               /\ Return(t, "start_ret", "ConfigStagingFailed")
               /\ UNCHANGED dirs
            \/ \* the walk fails after k leaf files were written
               /\ ndirs' = ndirs + 1
               /\ configDir' = ndirs + 1
               /\ \E k \in 0..(NumFiles - 1) :
                    dirs' = [dirs EXCEPT ![ndirs + 1] =
                               [exists |-> TRUE, files |-> k]]
               /\ Return(t, "start_ret", "ConfigStagingFailed")
            \/ \* every leaf file is written
               /\ ndirs' = ndirs + 1
               /\ configDir' = ndirs + 1
               /\ dirs' = [dirs EXCEPT ![ndirs + 1] =
                             [exists |-> TRUE, files |-> NumFiles]]
               /\ Goto(t, "start_spawn")
               /\ UNCHANGED ret
  /\ UNCHANGED <<variant, cfgFS, mu, cmd, addr, procs, nspawn, watch, wtarget, w, snap, killed, st,
                 pe, api>>

\* oc.cmd = exec.Command(...); oc.cmd.Start(); (pkg) go func() { Wait }()
StartSpawn(t) ==
  /\ ~Crashed
  /\ pc[t] = "start_spawn"
  /\ \/ \* cmd.Start() fails: oc.cmd is set, its Process is nil
        /\ cmd' = [alloc |-> TRUE, pid |-> 0]
        /\ Return(t, "start_ret", "SpawnFailed")
        /\ UNCHANGED <<procs, nspawn, watch>>
     \/ /\ cmd' = [alloc |-> TRUE, pid |-> nspawn + 1]
        /\ procs' = [procs EXCEPT ![nspawn + 1] = "running"]
        /\ nspawn' = nspawn + 1
        /\ IF variant = "pkg"
             THEN /\ watch' = [watch EXCEPT ![nspawn + 1] = "spawned"]
                  /\ Goto(t, "start_probe")
                  /\ UNCHANGED ret
             ELSE /\ Return(t, "start_ret", "ok")
                  /\ UNCHANGED watch
  /\ UNCHANGED <<variant, cfgFS, mu, addr, configDir, wtarget, dirs, ndirs, w, snap, killed, st,
                 pe, api>>

\* The probe fails exactly when the child was already waited for.
ProbeFails == procs[cmd.pid] = "reaped"

\* time.Sleep(500ms); os.FindProcess(pid); process.Signal(0)
StartProbe(t) ==
  /\ ~Crashed
  /\ pc[t] = "start_probe"
  /\ Return(t, "start_ret", IF ProbeFails THEN "SpawnFailed" ELSE "ok")
  /\ UNCHANGED <<variant, cfgFS, mu, cmd, addr, configDir, procs, nspawn,
                 watch, wtarget, dirs, ndirs, w, snap, killed, st, pe,
                 api>>

\* return; defer oc.mu.Unlock()
StartReturn(t) ==
  /\ ~Crashed
  /\ pc[t] = "start_ret"
  /\ mu' = 0
  /\ snap' = Fields
  /\ Return(t, "idle", "none")
  /\ UNCHANGED <<variant, cfgFS, cmd, addr, configDir, procs, nspawn, watch,
                 wtarget, dirs, ndirs, w, killed, st, pe, api>>

\* ------------------------------------------------------------------ Stop
CallStop(t) ==
  /\ ~Crashed
  /\ pc[t] = "idle"
  /\ Return(t, "stop_lock", "none")
  /\ UNCHANGED <<variant, cfgFS, mu, cmd, addr, configDir, procs, nspawn,
                 watch, wtarget, dirs, ndirs, w, snap, killed, st, pe,
                 api>>

StopLock(t) ==
  /\ ~Crashed
  /\ pc[t] = "stop_lock"
  /\ mu = 0
  /\ mu' = t
  /\ snap' = Fields
  /\ Goto(t, "stop_body")
  /\ UNCHANGED <<variant, cfgFS, cmd, addr, configDir, procs, nspawn, watch,
                 wtarget, dirs, ndirs, ret, w, killed, st, pe, api>>

\* Process.Kill() returns an error exactly when the handle was waited for.
KillFails == procs[cmd.pid] = "reaped"

\* Stop that kills the child and forgets to clear the handle.
StopBodyKeepsHandle(t) ==
  /\ ~Crashed
  /\ pc[t] = "stop_body"
  /\ IF ~Live(cmd)
       THEN /\ Return(t, "stop_ret", "ok")
            /\ UNCHANGED <<procs, killed>>
       ELSE IF KillFails
         THEN /\ Return(t, "stop_ret", "StopFailed")
              /\ UNCHANGED <<procs, killed>>
         ELSE /\ procs' = [procs EXCEPT ![cmd.pid] = "zombie"]
              /\ killed' = killed \cup {cmd.pid}
              /\ Return(t, "stop_ret", "ok")
  /\ UNCHANGED <<variant, cfgFS, mu, cmd, addr, configDir, nspawn, watch,
                 wtarget, dirs, ndirs, w, snap, st, pe, api>>

\* if oc.cmd == nil || oc.cmd.Process == nil { return nil }
\* if err := oc.cmd.Process.Kill(); err != nil { return err }; oc.cmd = nil
StopBody(t) ==
  /\ ~Crashed
  /\ pc[t] = "stop_body"
  /\ IF ~Live(cmd)
       THEN /\ Return(t, "stop_ret", "ok")
            /\ UNCHANGED <<cmd, procs, killed>>
       ELSE IF KillFails
         THEN /\ Return(t, "stop_ret", "StopFailed")
              /\ UNCHANGED <<cmd, procs, killed>>
         ELSE /\ procs' = [procs EXCEPT ![cmd.pid] = "zombie"]
              /\ killed' = killed \cup {cmd.pid}
              /\ cmd' = NilCmd
              /\ Return(t, "stop_ret", "ok")
  /\ UNCHANGED <<variant, cfgFS, mu, addr, configDir, nspawn, watch, wtarget,
                 dirs, ndirs, w, snap, st, pe, api>>

StopReturn(t) ==
  /\ ~Crashed
  /\ pc[t] = "stop_ret"
  /\ mu' = 0
  /\ snap' = Fields
  /\ Return(t, "idle", "none")
  /\ UNCHANGED <<variant, cfgFS, cmd, addr, configDir, procs, nspawn, watch,
                 wtarget, dirs, ndirs, w, killed, st, pe, api>>

\* --------------------------------------------------------------- Cleanup
CallCleanup(t) ==
  /\ ~Crashed
  /\ variant = "root"
  /\ pc[t] = "idle"
  /\ Return(t, "cleanup_lock", "none")
  /\ UNCHANGED <<variant, cfgFS, mu, cmd, addr, configDir, procs, nspawn,
                 watch, wtarget, dirs, ndirs, w, snap, killed, st, pe,
                 api>>

CleanupLock(t) ==
  /\ ~Crashed
  /\ pc[t] = "cleanup_lock"
  /\ mu = 0
  /\ mu' = t
  /\ snap' = Fields
  /\ Goto(t, "cleanup_body")
  /\ UNCHANGED <<variant, cfgFS, cmd, addr, configDir, procs, nspawn, watch,
                 wtarget, dirs, ndirs, ret, w, killed, st, pe, api>>

\* A Cleanup that removes the directory and keeps the recorded path.
CleanupBodyKeepsPath(t) ==
  /\ ~Crashed
  /\ pc[t] = "cleanup_body"
  /\ IF configDir = 0
       THEN /\ Return(t, "cleanup_ret", "ok")
            /\ UNCHANGED dirs
       ELSE \/ /\ Return(t, "cleanup_ret", "CleanupFailed")
               /\ UNCHANGED dirs
            \/ /\ dirs' = [dirs EXCEPT ![configDir] = NoDir]
               /\ Return(t, "cleanup_ret", "ok")
  /\ UNCHANGED <<variant, cfgFS, mu, cmd, addr, configDir, procs, nspawn,
                 watch, wtarget, ndirs, w, snap, killed, st, pe, api>>

CleanupBody(t) ==
  /\ ~Crashed
  /\ pc[t] = "cleanup_body"
  /\ IF configDir = 0
       THEN /\ Return(t, "cleanup_ret", "ok")
            /\ UNCHANGED <<configDir, dirs>>
       ELSE \/ \* os.RemoveAll fails
               /\ Return(t, "cleanup_ret", "CleanupFailed")
               /\ UNCHANGED <<configDir, dirs>>
            \/ /\ dirs' = [dirs EXCEPT ![configDir] = NoDir]
               /\ configDir' = 0
               /\ Return(t, "cleanup_ret", "ok")
  /\ UNCHANGED <<variant, cfgFS, mu, cmd, addr, procs, nspawn, watch, wtarget,
                 ndirs, w, snap, killed, st, pe, api>>

CleanupReturn(t) ==
  /\ ~Crashed
  /\ pc[t] = "cleanup_ret"
  /\ mu' = 0
  /\ snap' = Fields
  /\ Return(t, "idle", "none")
  /\ UNCHANGED <<variant, cfgFS, cmd, addr, configDir, procs, nspawn, watch,
                 wtarget, dirs, ndirs, w, killed, st, pe, api>>

\* ------------------------------------------- the child and its watcher
\* The child process exits on its own.
ChildExit(p) ==
  /\ ~Crashed
  /\ procs[p] = "running"
  /\ procs' = [procs EXCEPT ![p] = "zombie"]
  /\ UNCHANGED <<variant, cfgFS, mu, cmd, addr, configDir, nspawn, watch,
                 wtarget, dirs, ndirs, pc, ret, w, snap, killed, st, pe,
                 api>>

\* The goroutine starts: it evaluates oc.cmd.Process, then calls Wait on it.
WatcherBegin(p) ==
  /\ ~Crashed
  /\ watch[p] = "spawned"
  /\ IF Live(cmd)
       THEN /\ watch' = [watch EXCEPT ![p] = "waiting"]
            /\ wtarget' = [wtarget EXCEPT ![p] = cmd.pid]
       ELSE /\ watch' = [watch EXCEPT ![p] = "panic"]
            /\ UNCHANGED wtarget
  /\ UNCHANGED <<variant, cfgFS, mu, cmd, addr, configDir, procs, nspawn,
                 dirs, ndirs, pc, ret, w, snap, killed, st, pe, api>>

\* Process.Wait() returns: the exited child is reaped (or was already).
WatcherWait(p) ==
  /\ ~Crashed
  /\ watch[p] = "waiting"
  /\ procs[wtarget[p]] \in {"zombie", "reaped"}
  /\ procs' = [procs EXCEPT ![wtarget[p]] = "reaped"]
  /\ watch' = [watch EXCEPT ![p] = "log"]
  /\ UNCHANGED <<variant, cfgFS, mu, cmd, addr, configDir, nspawn, wtarget,
                 dirs, ndirs, pc, ret, w, snap, killed, st, pe, api>>

\* A watcher that would clear the handle of the child it saw exit.
WatcherLogClearsHandle(p) ==
  /\ ~Crashed
  /\ watch[p] = "log"
  /\ watch' = [watch EXCEPT ![p] = IF Live(cmd) THEN "done" ELSE "panic"]
  /\ cmd' = IF Live(cmd) /\ cmd.pid = wtarget[p] THEN NilCmd ELSE cmd
  /\ UNCHANGED <<variant, cfgFS, mu, addr, configDir, procs, nspawn,
                 wtarget, dirs, ndirs, pc, ret, w, snap, killed, st, pe,
                 api>>

\* slog.Info/Error(..., "pid", oc.cmd.Process.Pid, ...)
WatcherLog(p) ==
  /\ ~Crashed
  /\ watch[p] = "log"
  /\ watch' = [watch EXCEPT ![p] = IF Live(cmd) THEN "done" ELSE "panic"]
  /\ UNCHANGED <<variant, cfgFS, mu, cmd, addr, configDir, procs, nspawn,
                 wtarget, dirs, ndirs, pc, ret, w, snap, killed, st, pe,
                 api>>

\* ------------------------------------------------------------------ Addr
\* func (oc *OpenCode) Addr() string { return oc.config.Addr }
Addr(t) ==
  /\ ~Crashed
  /\ pc[t] = "idle"
  /\ Return(t, "addr_ret", addr)
  /\ UNCHANGED <<variant, cfgFS, mu, cmd, addr, configDir, procs, nspawn,
                 watch, wtarget, dirs, ndirs, w, snap, killed, st, pe,
                 api>>

\* The caller has the address.
AddrReturn(t) ==
  /\ ~Crashed
  /\ pc[t] = "addr_ret"
  /\ Return(t, "idle", "none")
  /\ UNCHANGED <<variant, cfgFS, mu, cmd, addr, configDir, procs, nspawn,
                 watch, wtarget, dirs, ndirs, w, snap, killed, st, pe,
                 api>>

\* ------------------------------------- WaitForReady(maxAttempts) (pkg)
\* client.Get returns err == nil on the poll the server first answers.
HealthAnswers(c) == c.k <= MaxAttempts /\ c.polls + 1 >= c.k

CallWaitForReady(t) ==
  /\ ~Crashed
  /\ variant = "pkg"
  /\ pc[t] = "idle"
  /\ \E m \in AttemptArgs, k \in AnswerAts :
       w' = [w EXCEPT ![t] = [NoWait EXCEPT !.max = m, !.k = k]]
  /\ Return(t, "wfr_loop", "none")
  /\ UNCHANGED <<variant, cfgFS, mu, cmd, addr, configDir, procs, nspawn,
                 watch, wtarget, dirs, ndirs, snap, killed, st, pe, api>>

\* The loop condition off by one.
LoopContinuesOffByOne(c) == c.i <= c.max

\* i < maxAttempts
LoopContinues(c) == c.i < c.max

\* An iteration that first takes the Start/Stop lock.
WfrLoopLocked(t) ==
  /\ ~Crashed
  /\ pc[t] = "wfr_loop"
  /\ mu = 0
  /\ IF LoopContinues(w[t])
       THEN IF HealthAnswers(w[t])
              THEN /\ w' = [w EXCEPT ![t].polls = @ + 1]
                   /\ Return(t, "wfr_ret", "ok")
              ELSE /\ w' = [w EXCEPT ![t].polls = @ + 1, ![t].i = @ + 1]
                   /\ UNCHANGED <<pc, ret>>
       ELSE /\ Return(t, "wfr_ret", "NotReady")
            /\ UNCHANGED w
  /\ UNCHANGED <<variant, cfgFS, mu, cmd, addr, configDir, procs, nspawn,
                 watch, wtarget, dirs, ndirs, snap, killed, st, pe, api>>

\* One evaluation of the loop condition and, if it holds, one iteration:
\* client.Get; return nil on a response; else time.Sleep and i++.
WfrLoop(t) ==
  /\ ~Crashed
  /\ pc[t] = "wfr_loop"
  /\ IF LoopContinues(w[t])
       THEN IF HealthAnswers(w[t])
              THEN /\ w' = [w EXCEPT ![t].polls = @ + 1]
                   /\ Return(t, "wfr_ret", "ok")
              ELSE /\ w' = [w EXCEPT ![t].polls = @ + 1, ![t].i = @ + 1]
                   /\ UNCHANGED <<pc, ret>>
       ELSE /\ Return(t, "wfr_ret", "NotReady")
            /\ UNCHANGED w
  /\ UNCHANGED <<variant, cfgFS, mu, cmd, addr, configDir, procs, nspawn,
                 watch, wtarget, dirs, ndirs, snap, killed, st, pe, api>>

WfrReturn(t) ==
  /\ ~Crashed
  /\ pc[t] = "wfr_ret"
  /\ Return(t, "idle", "none")
  /\ w' = [w EXCEPT ![t] = NoWait]
  /\ UNCHANGED <<variant, cfgFS, mu, cmd, addr, configDir, procs, nspawn,
                 watch, wtarget, dirs, ndirs, snap, killed, st, pe, api>>

\* ------------------------------- WaitForReady(ctx, maybeTimeout...) (root)
\* The caller passes a context that can be cancelled (canc) or cannot
\* (context.Background()), with or without a timeout (tmo). With a timeout
\* the call polls under a derived context; without, under the caller's.
\* The previous call's poller has ended, or is blocked for good on its send.
CallWaitForReadyCtx(t) ==
  /\ ~Crashed
  /\ variant = "root"
  /\ pc[t] = "idle"
  /\ w[t].ppc \in {"none", "exit", "send"}
  /\ \E tmo \in BOOLEAN, canc \in BOOLEAN :
       w' = [w EXCEPT ![t] = [NoWait EXCEPT !.tmo = tmo, !.canc = canc,
                                            !.ppc = "select"]]
  /\ Return(t, "wfc_wait", "none")
  /\ UNCHANGED <<variant, cfgFS, mu, cmd, addr, configDir, procs, nspawn,
                 watch, wtarget, dirs, ndirs, snap, killed, st, pe, api>>

\* The polling goroutine's select: <-ctx.Done() returns, <-ticker.C polls.
PollerSelect(t) ==
  /\ ~Crashed
  /\ w[t].ppc = "select"
  /\ \/ /\ w[t].ctx = "done"
        /\ w' = [w EXCEPT ![t].ppc = "exit"]
     \/ w' = [w EXCEPT ![t].ppc = "request"]
  /\ UNCHANGED <<variant, cfgFS, mu, cmd, addr, configDir, procs, nspawn,
                 watch, wtarget, dirs, ndirs, pc, ret, snap, killed, st,
                 pe, api>>

\* http.DefaultClient.Do(req): the server answers (err == nil) or the request
\* fails; a request under a finished context fails.
PollerRequest(t) ==
  /\ ~Crashed
  /\ w[t].ppc = "request"
  /\ \/ /\ w[t].ctx = "live"
        /\ w' = [w EXCEPT ![t].ppc = "send"]
     \/ w' = [w EXCEPT ![t].ppc = "select"]
  /\ UNCHANGED <<variant, cfgFS, mu, cmd, addr, configDir, procs, nspawn,
                 watch, wtarget, dirs, ndirs, pc, ret, snap, killed, st,
                 pe, api>>

\* case <-readyChan: return nil (the poller's send completes)
WfcReady(t) ==
  /\ ~Crashed
  /\ pc[t] = "wfc_wait"
  /\ w[t].ppc = "send"
  /\ w' = [w EXCEPT ![t].ppc = "exit"]
  /\ Return(t, "wfc_ret", "ok")
  /\ UNCHANGED <<variant, cfgFS, mu, cmd, addr, configDir, procs, nspawn,
                 watch, wtarget, dirs, ndirs, snap, killed, st, pe, api>>

\* case <-ctx.Done(): return "opencode is not ready after ..."
WfcCtxDone(t) ==
  /\ ~Crashed
  /\ pc[t] = "wfc_wait"
  /\ w[t].ctx = "done"
  /\ Return(t, "wfc_ret", "NotReady")
  /\ UNCHANGED <<variant, cfgFS, mu, cmd, addr, configDir, procs, nspawn,
                 watch, wtarget, dirs, ndirs, w, snap, killed, st, pe,
                 api>>

\* return; defer cancel(): cancels the derived context, if there is one.
\* What the call leaves behind is its poller and the context it polls under.
WfcReturn(t) ==
  /\ ~Crashed
  /\ pc[t] = "wfc_ret"
  /\ Return(t, "idle", "none")
  /\ w' = [w EXCEPT ![t] = [NoWait EXCEPT
                              !.ppc = w[t].ppc,
                              !.ctx = IF w[t].tmo THEN "done" ELSE w[t].ctx]]
  /\ UNCHANGED <<variant, cfgFS, mu, cmd, addr, configDir, procs, nspawn,
                 watch, wtarget, dirs, ndirs, snap, killed, st, pe, api>>

\* The deadline of context.WithTimeout passes.
TimerExpire(t) ==
  /\ ~Crashed
  /\ pc[t] = "wfc_wait"
  /\ w[t].tmo
  /\ w[t].ctx = "live"
  /\ w' = [w EXCEPT ![t].ctx = "done"]
  /\ UNCHANGED <<variant, cfgFS, mu, cmd, addr, configDir, procs, nspawn,
                 watch, wtarget, dirs, ndirs, pc, ret, snap, killed, st,
                 pe, api>>

\* The caller's side cancels the context it passed.
CtxCancel(t) ==
  /\ ~Crashed
  /\ pc[t] = "wfc_wait"
  /\ w[t].canc
  /\ w[t].ctx = "live"
  /\ w' = [w EXCEPT ![t].ctx = "done"]
  /\ UNCHANGED <<variant, cfgFS, mu, cmd, addr, configDir, procs, nspawn,
                 watch, wtarget, dirs, ndirs, pc, ret, snap, killed, st,
                 pe, api>>

\* ------------------------------------------------------- API client (pkg)
\* A getURL without the test for the empty address.
getURLNoCheck(path) == "http://" \o addr \o path

\* getURL: no address, no URL.
getURL(path) == IF addr = "" THEN "" ELSE "http://" \o addr \o path

\* The status codes a server answers with.
Statuses == {200, 201, 404, 500}

\* The three calls of the client.
ApiOps == {"ListSessions", "CreateSession", "SendMessage"}

\* The path of the request of each call (SendMessage for session "s1").
PathOf(op) == IF op = "SendMessage" THEN "/session/" \o "s1" \o "/message"
              ELSE "/session"

\* The one text part SendMessage posts, as the server stores it.
TextPart == [Type |-> "text", Text |-> "hello"]

\* The bodies a server answers with: text that is no JSON, or the document
\* of the call. For SendMessage the document is {info, parts}: parts holds
\* the text part, and info may or may not repeat the parts.
Bodies == {[wf |-> FALSE, infoParts |-> <<>>]}
          \cup [wf : {TRUE}, infoParts : {<<>>, <<TextPart>>}]

\* json.NewDecoder(resp.Body).Decode(&v) and the value the call returns:
\* the session(s) of the document, or response.Info, whose Parts are the
\* parts member of info.
Decode(op, body) ==
  IF ~body.wf THEN Result("DecodeError", "", "", <<>>)
  ELSE IF op = "SendMessage"
         THEN Result("none", "msg_1", "user", body.infoParts)
         ELSE Result("none", "ses_1", "", <<>>)

\* ListSessions, CreateSession, SendMessage: the request is built from
\* oc.config only.
ApiCall(t) ==
  /\ ~Crashed
  /\ variant = "pkg"
  /\ pc[t] = "idle"
  /\ \E op \in ApiOps :
       api' = [api EXCEPT ![t] = [NoApi EXCEPT !.op = op,
                                               !.url = getURL(PathOf(op))]]
  /\ Goto(t, "api_do")
  /\ UNCHANGED <<variant, cfgFS, mu, cmd, addr, configDir, procs, nspawn,
                 watch, wtarget, dirs, ndirs, ret, w, snap, killed, st, pe>>

\* oc.client.Do(req), the status check and the decoding of the body.
ApiDo(t) ==
  /\ ~Crashed
  /\ pc[t] = "api_do"
  /\ \/ /\ api' = [api EXCEPT ![t].out =
                                Result("TransportError", "", "", <<>>)]
        /\ Return(t, "api_ret", "TransportError")
     \/ /\ api[t].url # ""
        /\ \E status \in Statuses, body \in Bodies :
             LET out == IF status # 200
                          THEN Result("HTTPStatusError", "", "", <<>>)
                          ELSE Decode(api[t].op, body)
             IN  /\ api' = [api EXCEPT ![t].status = status,
                                       ![t].body = body,
                                       ![t].out = out]
                 /\ Return(t, "api_ret",
                           IF out.err = "none" THEN "ok" ELSE out.err)
  /\ UNCHANGED <<variant, cfgFS, mu, cmd, addr, configDir, procs, nspawn,
                 watch, wtarget, dirs, ndirs, w, snap, killed, st, pe>>

ApiReturn(t) ==
  /\ ~Crashed
  /\ pc[t] = "api_ret"
  /\ Return(t, "idle", "none")
  /\ api' = [api EXCEPT ![t] = NoApi]
  /\ UNCHANGED <<variant, cfgFS, mu, cmd, addr, configDir, procs, nspawn,
                 watch, wtarget, dirs, ndirs, w, snap, killed, st, pe>>

\* ------------------------------------------------------ StreamEvents (pkg)
\* const maxScanTokenSize = 1024 * 1024
maxScanTokenSize == 1048576

\* The lines a server sends: a prefix, a payload (the JSON envelope with type
\* tag "a" or "b", or text that is no JSON) and a length in bytes.
Prefixes == {"data: ", "event: "}

Payloads == {"a", "b", "garbage"}

FrameLens == {maxScanTokenSize - 1, maxScanTokenSize, maxScanTokenSize + 1}

Frames == [prefix : Prefixes, payload : Payloads, len : FrameLens]

\* bufio.Scanner with a buffer of maxScanTokenSize bytes that may not grow:
\* a line is a token only if the line and its newline fit into the buffer.
TooLong(f) == f.len + 1 > maxScanTokenSize

\* strings.HasPrefix(line, "data: ")
HasPrefix(f) == f.prefix = "data: "

\* strings.TrimPrefix(line, "data: ")
TrimPrefix(f) == f.payload

\* json.Unmarshal([]byte(data), &event)
Unmarshal(data) ==
  IF data = "garbage" THEN [err |-> TRUE, Type |-> ""]
                      ELSE [err |-> FALSE, Type |-> data]

StreamCall(t) ==
  /\ ~Crashed
  /\ variant = "pkg"
  /\ pc[t] = "idle"
  /\ Goto(t, "stream_do")
  /\ UNCHANGED <<variant, cfgFS, mu, cmd, addr, configDir, procs, nspawn,
                 watch, wtarget, dirs, ndirs, ret, w, snap, killed, st, pe,
                 api>>

\* oc.client.Do(req): the stream connects or the call returns the error.
StreamConnect(t) ==
  /\ ~Crashed
  /\ pc[t] = "stream_do"
  /\ \/ /\ Return(t, "stream_ret", "StreamError")
        /\ st' = [st EXCEPT ![t].end = "connect"]
     \/ /\ getURL("/event") # ""
        /\ Return(t, "stream_scan", "none")
        /\ UNCHANGED st
  /\ UNCHANGED <<variant, cfgFS, mu, cmd, addr, configDir, procs, nspawn,
                 watch, wtarget, dirs, ndirs, w, snap, killed, pe, api>>

\* scanner.Scan() reads the next line of the body; a line that does not fit
\* into the buffer ends the loop with scanner.Err() = ErrTooLong.
StreamScan(t) ==
  /\ ~Crashed
  /\ pc[t] = "stream_scan"
  /\ Len(st[t].sent) < MaxFrames
  /\ \E f \in Frames :
       IF TooLong(f)
         THEN /\ st' = [st EXCEPT ![t].sent = Append(@, f),
                                  ![t].end = "toolong"]
              /\ Return(t, "stream_ret", "StreamError")
         ELSE /\ st' = [st EXCEPT ![t].sent = Append(@, f)]
              /\ Return(t, "stream_line", "none")
  /\ UNCHANGED <<variant, cfgFS, mu, cmd, addr, configDir, procs, nspawn,
                 watch, wtarget, dirs, ndirs, w, snap, killed, pe, api>>

\* A loop body that would hand the newest event to the callback ahead of the
\* ones before it.
StreamLineReorders(t) ==
  /\ ~Crashed
  /\ pc[t] = "stream_line"
  /\ LET line == st[t].sent[Len(st[t].sent)]
         event == Unmarshal(TrimPrefix(line))
     IN  IF HasPrefix(line) /\ ~event.err
           THEN /\ st' = [st EXCEPT ![t].delivered =
                                      <<[Type |-> event.Type]>> \o @]
                /\ Goto(t, "stream_cb")
           ELSE /\ Goto(t, "stream_scan")
                /\ UNCHANGED st
  /\ UNCHANGED <<variant, cfgFS, mu, cmd, addr, configDir, procs, nspawn,
                 watch, wtarget, dirs, ndirs, ret, w, snap, killed, pe,
                 api>>

\* A loop body that would return the decoding error of a malformed line.
StreamLineAbortsOnMalformed(t) ==
  /\ ~Crashed
  /\ pc[t] = "stream_line"
  /\ LET line == st[t].sent[Len(st[t].sent)]
         event == Unmarshal(TrimPrefix(line))
     IN  IF HasPrefix(line) /\ ~event.err
           THEN /\ st' = [st EXCEPT ![t].delivered =
                                      Append(@, [Type |-> event.Type])]
                /\ Return(t, "stream_cb", "none")
           ELSE IF HasPrefix(line)
                  THEN /\ Return(t, "stream_ret", "DecodeError")
                       /\ UNCHANGED st
                  ELSE /\ Return(t, "stream_scan", "none")
                       /\ UNCHANGED st
  /\ UNCHANGED <<variant, cfgFS, mu, cmd, addr, configDir, procs, nspawn,
                 watch, wtarget, dirs, ndirs, w, snap, killed, pe, api>>

\* The body of the loop: a line with the data prefix is trimmed and decoded;
\* the decoded event is handed to the callback, anything else is skipped.
StreamLine(t) ==
  /\ ~Crashed
  /\ pc[t] = "stream_line"
  /\ LET line == st[t].sent[Len(st[t].sent)]
         event == Unmarshal(TrimPrefix(line))
     IN  IF HasPrefix(line) /\ ~event.err
           THEN /\ st' = [st EXCEPT ![t].delivered =
                                      Append(@, [Type |-> event.Type])]
                /\ Goto(t, "stream_cb")
           ELSE /\ Goto(t, "stream_scan")
                /\ UNCHANGED st
  /\ UNCHANGED <<variant, cfgFS, mu, cmd, addr, configDir, procs, nspawn,
                 watch, wtarget, dirs, ndirs, ret, w, snap, killed, pe,
                 api>>

\* callback(Event{...}) returns to the loop.
StreamCallbackReturn(t) ==
  /\ ~Crashed
  /\ pc[t] = "stream_cb"
  /\ Goto(t, "stream_scan")
  /\ UNCHANGED <<variant, cfgFS, mu, cmd, addr, configDir, procs, nspawn,
                 watch, wtarget, dirs, ndirs, ret, w, snap, killed, st, pe,
                 api>>

\* An end of the loop that would not look at scanner.Err().
StreamEndSwallowsError(t) ==
  /\ ~Crashed
  /\ pc[t] = "stream_scan"
  /\ \E e \in {"eof", "transport"} :
       /\ st' = [st EXCEPT ![t].end = e]
       /\ Return(t, "stream_ret", "ok")
  /\ UNCHANGED <<variant, cfgFS, mu, cmd, addr, configDir, procs, nspawn,
                 watch, wtarget, dirs, ndirs, w, snap, killed, pe, api>>

\* scanner.Scan() returns false: the body ended (scanner.Err() is nil) or
\* reading it failed (scanner.Err() is returned).
StreamEnd(t) ==
  /\ ~Crashed
  /\ pc[t] = "stream_scan"
  /\ \E e \in {"eof", "transport"} :
       /\ st' = [st EXCEPT ![t].end = e]
       /\ Return(t, "stream_ret", IF e = "eof" THEN "ok" ELSE "StreamError")
  /\ UNCHANGED <<variant, cfgFS, mu, cmd, addr, configDir, procs, nspawn,
                 watch, wtarget, dirs, ndirs, w, snap, killed, pe, api>>

StreamReturn(t) ==
  /\ ~Crashed
  /\ pc[t] = "stream_ret"
  /\ Return(t, "idle", "none")
  /\ st' = [st EXCEPT ![t] = NoStream]
  /\ UNCHANGED <<variant, cfgFS, mu, cmd, addr, configDir, procs, nspawn,
                 watch, wtarget, dirs, ndirs, w, snap, killed, pe, api>>

\* ------------------------------------------------------------ ParseEvent
\* The type tags ParseEvent has a case for.
KnownTags == {"server.connected", "message.part.updated", "message.updated",
              "session.updated", "session.status"}

\* The value of the "type" member of a JSON document: a tag, the empty string
\* of a missing member, or a number ("#7").
Tags == KnownTags \cup {"custom.event", "", "#7"}

\* The members of "properties" the documents may carry, by their path.
Paths == {"sessionID", "status.type", "info.id", "part.id"}

\* JSON numbers: a small one, and an integer that no float64 holds.
Numbers == {"#7", "#9007199254740993"}

\* The value of a member: missing, a string, or a number.
JVals == {"<absent>", "s1", "busy"} \cup Numbers

\* The JSON documents handed to ParseEvent: "properties" is an object with
\* some of the members, or it is an array.
Datas ==
  [type : Tags, shape : {"object"}, properties : [Paths -> JVals]]
  \cup [type : Tags, shape : {"array"},
        properties : {[p \in Paths |-> "<absent>"]}]

\* A JSON number decoded into an interface{} value is a float64.
Float64(v) == IF v = "#9007199254740993" THEN "#9007199254740992" ELSE v

\* return nil, err
Failed == [err |-> TRUE, variant |-> "nil", Type |-> "", Properties |-> <<>>]

\* json.Unmarshal(data, &evt) into the struct kind, whose string members are
\* paths:
\* a missing member leaves the zero value, a number for a string is an error,
\* members the struct does not have are dropped.
DecodeInto(kind, paths, data) ==
  IF data.shape # "object" \/ \E p \in paths : data.properties[p] \in Numbers
    THEN Failed
    ELSE [err |-> FALSE, variant |-> kind, Type |-> data.type,
          Properties |-> [p \in paths |->
                            IF data.properties[p] = "<absent>"
                              THEN "" ELSE data.properties[p]]]

\* json.Unmarshal(data, &evt) into UnknownEvent: Properties is a
\* map[string]interface{}, which takes every member of an object, whatever
\* its type, and nothing that is not an object.
DecodeUnknown(data) ==
  IF data.shape # "object" THEN Failed
  ELSE [err |-> FALSE, variant |-> "UnknownEvent", Type |-> data.type,
        Properties |->
          [p \in {q \in Paths : data.properties[q] # "<absent>"} |->
             Float64(data.properties[p])]]

\* A dispatch with the cases of message.updated and message.part.updated
\* exchanged.
ParseEventSwapsCases(data) ==
  IF data.type = "#7" THEN Failed
  ELSE CASE data.type = "server.connected" ->
              DecodeInto("ServerConnectedEvent", {}, data)
         [] data.type = "message.updated" ->
              DecodeInto("MessagePartUpdatedEvent", {"part.id"}, data)
         [] data.type = "message.part.updated" ->
              DecodeInto("MessageUpdatedEvent", {"info.id"}, data)
         [] data.type = "session.updated" ->
              DecodeInto("SessionUpdatedEvent", {"info.id"}, data)
         [] data.type = "session.status" ->
              DecodeInto("SessionStatusEvent", {"sessionID", "status.type"},
                         data)
         [] OTHER -> DecodeUnknown(data)

\* func ParseEvent(data []byte) (Event, error)
ParseEvent(data) ==
  IF data.type = "#7" THEN Failed
  ELSE CASE data.type = "server.connected" ->
              DecodeInto("ServerConnectedEvent", {}, data)
         [] data.type = "message.part.updated" ->
              DecodeInto("MessagePartUpdatedEvent", {"part.id"}, data)
         [] data.type = "message.updated" ->
              DecodeInto("MessageUpdatedEvent", {"info.id"}, data)
         [] data.type = "session.updated" ->
              DecodeInto("SessionUpdatedEvent", {"info.id"}, data)
         [] data.type = "session.status" ->
              DecodeInto("SessionStatusEvent", {"sessionID", "status.type"},
                         data)
         [] OTHER -> DecodeUnknown(data)

\* func (e BaseEvent) EventType() string
EventType(e) == e.Type

\* A caller hands a document to ParseEvent and has the result.
ParseCall ==
  /\ ~pe.called
  /\ \E data \in Datas :
       pe' = [called |-> TRUE, data |-> data, out |-> ParseEvent(data)]
  /\ UNCHANGED <<variant, cfgFS, mu, cmd, addr, configDir, procs, nspawn,
                 watch, wtarget, dirs, ndirs, pc, ret, w, snap, killed, st,
                 api>>

\* The caller is done with the result.
ParseDone ==
  /\ pe.called
  /\ pe' = NoParse
  /\ UNCHANGED <<variant, cfgFS, mu, cmd, addr, configDir, procs, nspawn,
                 watch, wtarget, dirs, ndirs, pc, ret, w, snap, killed, st,
                 api>>

\* ------------------------------------------------------------------ Next
\* The supervisor's operations.
Lifecycle(t) ==
  \/ CallStart(t) \/ StartLock(t) \/ StartCheck(t) \/ StartListen(t)
  \/ StartStage(t) \/ StartSpawn(t) \/ StartProbe(t) \/ StartReturn(t)
  \/ CallStop(t) \/ StopLock(t) \/ StopBody(t) \/ StopReturn(t)
  \/ CallCleanup(t) \/ CleanupLock(t) \/ CleanupBody(t) \/ CleanupReturn(t)

\* The child processes and their exit watchers.
Background ==
  \E p \in Pids : ChildExit(p) \/ WatcherBegin(p) \/ WatcherWait(p)
                    \/ WatcherLog(p)

\* WaitForReady in both calling conventions, with its poller and context.
Waiting(t) ==
  \/ CallWaitForReady(t) \/ WfrLoop(t) \/ WfrReturn(t)
  \/ CallWaitForReadyCtx(t) \/ PollerSelect(t) \/ PollerRequest(t)
  \/ WfcReady(t) \/ WfcCtxDone(t) \/ WfcReturn(t)
  \/ TimerExpire(t) \/ CtxCancel(t)

\* Start, Stop and Cleanup called concurrently from every thread.
Next == (\E t \in Threads : Lifecycle(t)) \/ Background

Spec == Init /\ [][Next]_vars

\* The watcher goroutines are scheduled: each takes its next step.
ReapFairness ==
  \A p \in Pids : /\ WF_vars(WatcherBegin(p)) /\ WF_vars(WatcherWait(p))
                  /\ WF_vars(WatcherLog(p))

ReapSpec == Init /\ [][Next]_vars /\ ReapFairness

\* One thread drives Start, Stop and Cleanup (main.go runs Start in a
\* goroutine of its own), another waits for readiness beside it. The
\* WaitForReady calls of different threads share nothing.
Supervisors == {1}

Waiters == {2}

WaitNext == \E t \in Waiters : Waiting(t)

\* Goroutines are scheduled, time passes (the deadline of a timeout is
\* reached), and a caller who passed a context it can cancel cancels it.
WaitFairness ==
  \A t \in Waiters :
    /\ WF_vars(WfrLoop(t)) /\ WF_vars(WfrReturn(t))
    /\ WF_vars(PollerSelect(t)) /\ WF_vars(PollerRequest(t))
    /\ WF_vars(WfcReady(t)) /\ WF_vars(WfcCtxDone(t)) /\ WF_vars(WfcReturn(t))
    /\ WF_vars(TimerExpire(t)) /\ WF_vars(CtxCancel(t))

WaitSpec == Init /\ [][WaitNext]_vars /\ WaitFairness

\* The supervisor thread beside clients that wait for readiness.
ClientNext ==
  \/ \E t \in Supervisors : Lifecycle(t)
  \/ Background
  \/ \E t \in Waiters : Waiting(t)

ClientSpec == Init /\ [][ClientNext]_vars

\* Every operation, called from one thread, one call after the other, while
\* the children and their watchers run in the background.
\* The calls that use the running server.
Client(t) ==
  \/ Addr(t) \/ AddrReturn(t)
  \/ ApiCall(t) \/ ApiDo(t) \/ ApiReturn(t)
  \/ StreamCall(t) \/ StreamConnect(t) \/ StreamEnd(t) \/ StreamReturn(t)

SeqNext ==
  \/ \E t \in Supervisors : Lifecycle(t) \/ Waiting(t) \/ Client(t)
  \/ Background

SeqSpec == Init /\ [][SeqNext]_vars

\* One StreamEvents call after the other, each reading the lines of its body.
Stream(t) ==
  \/ StreamCall(t) \/ StreamConnect(t) \/ StreamScan(t) \/ StreamLine(t)
  \/ StreamCallbackReturn(t) \/ StreamEnd(t) \/ StreamReturn(t)

StreamNext == \E t \in Supervisors : Stream(t)

StreamSpec == Init /\ [][StreamNext]_vars

\* ParseEvent applied to every document.
ParseNext == ParseCall \/ ParseDone

ParseSpec == Init /\ [][ParseNext]_vars

\* ============================================================ properties
\* The positions at which a thread holds oc.mu.
InCS(t) == pc[t] \in {"start_check", "start_listen", "start_stage",
                      "start_spawn", "start_probe", "start_ret",
                      "stop_body", "stop_ret", "cleanup_body", "cleanup_ret"}

\* The errors of a Start that got past its guard.
StartErrors == {"PortAllocationFailed", "ConfigStagingFailed", "SpawnFailed"}

Max0(n) == IF n > 0 THEN n ELSE 0

\* C1: a Start that finds a live child handle returns AlreadyRunning, spawns
\* no child, and leaves the handle, the address and the recorded isolation
\* root as they were when it took the lock.
C1_StartOnLiveHandle ==
  \A t \in Threads :
    (pc[t] = "start_ret" /\ Live(snap.cmd))
      => /\ ret[t] = "AlreadyRunning"
         /\ cmd = snap.cmd
         /\ addr = snap.addr
         /\ configDir = snap.configDir
         /\ nspawn = snap.nspawn

C1_Witness ==
  \E t \in Threads :
    pc[t] = "start_ret" /\ Live(snap.cmd) /\ ret[t] = "AlreadyRunning"

\* C2: every Stop returns success (so do two in a row), and a Stop that
\* finds no live handle changes nothing.
C2_StopIdempotent ==
  \A t \in Threads :
    pc[t] = "stop_ret"
      => /\ ret[t] = "ok"
         /\ ~Live(snap.cmd) => Fields = snap

\* C3: a Start that returns an error leaves no live child handle.
C3_FailedStartIsIdle ==
  \A t \in Threads :
    (pc[t] = "start_ret" /\ ret[t] \in StartErrors) => ~Live(cmd)

\* C4: a Start that returns success returns with its child still running.
C4_SuccessMeansAlive ==
  \A t \in Threads :
    (pc[t] = "start_ret" /\ ret[t] = "ok") => procs[cmd.pid] = "running"

\* C5: a Stop that finds a live handle either delivers the kill signal,
\* clears the handle and returns success, or fails to deliver it, returns
\* StopFailed and leaves the handle as it was.
C5_StopOnLiveHandle ==
  \A t \in Threads :
    (pc[t] = "stop_ret" /\ Live(snap.cmd))
      => \/ /\ ret[t] = "ok"
            /\ snap.cmd.pid \in killed
            /\ procs[snap.cmd.pid] # "running"
            /\ ~Live(cmd)
         \/ /\ ret[t] = "StopFailed"
            /\ snap.cmd.pid \notin killed
            /\ cmd = snap.cmd

C5_Witness ==
  \E t \in Threads :
    /\ pc[t] = "stop_ret" /\ Live(snap.cmd) /\ ret[t] = "StopFailed"
    /\ killed # {}

\* C6: at most one thread is inside the body of Start, Stop or Cleanup, it
\* is the one that holds the lock, and the instance never has more than one
\* running child.
C6_MutualExclusion ==
  /\ \A t1, t2 \in Threads : (InCS(t1) /\ InCS(t2)) => t1 = t2
  /\ \A t \in Threads : InCS(t) <=> mu = t
  /\ Cardinality({p \in Pids : procs[p] = "running"}) <= 1

\* One Start is spawning while another waits for the lock.
C6_Witness ==
  \E t1, t2 \in Threads :
    t1 # t2 /\ pc[t1] = "start_spawn" /\ pc[t2] = "start_lock"

\* C8: WaitForReady(maxAttempts) against a server that first answers on
\* poll k returns success after exactly k polls when k <= maxAttempts, and
\* NotReady after exactly max(maxAttempts, 0) polls otherwise; it never
\* issues more than maxAttempts polls.
C8_ExactPolls ==
  \A t \in Threads :
    /\ pc[t] \in {"wfr_loop", "wfr_ret"} => w[t].polls <= Max0(w[t].max)
    /\ pc[t] = "wfr_ret"
         => IF w[t].k <= w[t].max
              THEN ret[t] = "ok" /\ w[t].polls = w[t].k
              ELSE ret[t] = "NotReady" /\ w[t].polls = Max0(w[t].max)

\* The server answers on the third poll, and the call returns after three.
C8_Witness ==
  \E t \in Threads :
    /\ pc[t] = "wfr_ret" /\ ret[t] = "ok"
    /\ w[t].k = MaxAttempts /\ w[t].polls = MaxAttempts

\* C9: every WaitForReady call, in either convention, eventually returns.
C9_AlwaysReturns ==
  \A t \in Threads :
    (pc[t] \in {"wfr_loop", "wfc_wait"}) ~> (pc[t] \in {"wfr_ret", "wfc_ret"})

\* A step of a WaitForReady call: its caller moves, or its poller or its
\* context does.
WaitingSteps == \E t \in Threads : w'[t] # w[t] \/ (pc[t] \in {"wfr_loop", "wfr_ret", "wfc_wait", "wfc_ret"} /\ pc'[t] # pc[t])

\* What a WaitForReady call in progress can do next.
WaitingProgress(t) ==
  \/ WfrLoop(t) \/ WfrReturn(t)
  \/ PollerSelect(t) \/ PollerRequest(t)
  \/ WfcReady(t) \/ WfcCtxDone(t) \/ WfcReturn(t)

\* C10: a WaitForReady call can always take its next step, whoever holds the
\* Start/Stop lock; the holder of the lock can always take its next step,
\* whatever WaitForReady calls are in progress; and no step of WaitForReady
\* touches the lock or a field of the instance.
C10_NoSharedLock ==
  /\ [](~Crashed =>
          \A t \in Threads :
            /\ pc[t] \in {"wfr_loop", "wfr_ret", "wfc_wait", "wfc_ret"}
                 => ENABLED WaitingProgress(t)
            /\ mu = t => ENABLED Lifecycle(t))
  /\ [][WaitingSteps =>
          UNCHANGED <<mu, cmd, addr, configDir, procs, nspawn, dirs, ndirs>>]_vars

\* A WaitForReady call is between two polls while Start sleeps with the
\* lock held.
C10_Witness ==
  \E t, s \in Threads :
    /\ pc[t] = "wfr_loop" /\ w[t].polls > 0
    /\ mu = s /\ pc[s] = "start_probe"

\* A step of thread t inside one of the operations whose positions are pcs.
StepOf(t, pcs) == pc[t] \in pcs /\ pc'[t] # pc[t]

\* C7, as stated: Start and Stop are the only operations that change the
\* child-handle field or the isolation-root field; every step that changes
\* one of them is a step of a Start or of a Stop.
C7_OnlyStartAndStop ==
  [][(cmd' # cmd \/ configDir' # configDir)
       => \E t \in Threads : StepOf(t, StartPcs \cup StopPcs)]_vars

\* C7, amended: the child-handle field is changed by Start and Stop only, and
\* the isolation-root field by Start and Cleanup only (Cleanup clears it and
\* leaves the handle alone). Addr, WaitForReady, the API client calls,
\* StreamEvents and the exit watcher change neither, so a Start issued after
\* an unexpected child exit still sees the old handle.
C7_FrameOfFields ==
  [][/\ cmd' # cmd => \E t \in Threads : StepOf(t, StartPcs \cup StopPcs)
     /\ configDir' # configDir
          => \E t \in Threads : StepOf(t, StartPcs \cup CleanupPcs)
     /\ (\E t \in Threads : StepOf(t, StopPcs)) => configDir' = configDir
     /\ (\E t \in Threads : StepOf(t, CleanupPcs))
          => cmd' = cmd /\ configDir' \in {configDir, 0}]_vars

\* The child exited by itself, its watcher reaped it and finished, and the
\* Start issued afterwards found the old handle.
C7_Witness ==
  \E t \in Threads :
    /\ pc[t] = "start_ret" /\ ret[t] = "AlreadyRunning"
    /\ Live(cmd) /\ procs[cmd.pid] = "reaped" /\ cmd.pid \notin killed
    /\ \E p \in Pids : wtarget[p] = cmd.pid /\ watch[p] = "done"

\* C11: when a Stop returns success for a child that was started with a
\* staged isolation root, the root has been cleaned up: the staged directory
\* no longer exists and the recorded path is empty.
C11_StopTriggersCleanup ==
  \A t \in Threads :
    /\ pc[t] = "stop_ret" /\ ret[t] = "ok"
    /\ Live(snap.cmd) /\ snap.configDir # 0
    => configDir = 0 /\ ~dirs[snap.configDir].exists

\* C12: Cleanup is idempotent. With no recorded isolation root its body
\* returns success and changes neither a field nor a directory; with a
\* recorded root it either removes the directory, clears the recorded path and
\* returns success, or returns CleanupFailed and keeps the recorded path. A
\* Cleanup that follows a successful one therefore is a no-op success.
C12_CleanupIdempotent ==
  [][\A t \in Threads :
       pc[t] = "cleanup_body" /\ pc'[t] # pc[t]
         => /\ pc'[t] = "cleanup_ret"
            /\ cmd' = cmd /\ addr' = addr /\ procs' = procs
            /\ IF configDir = 0
                 THEN ret'[t] = "ok" /\ configDir' = 0 /\ dirs' = dirs
                 ELSE \/ /\ ret'[t] = "ok"
                         /\ configDir' = 0
                         /\ dirs' = [dirs EXCEPT ![configDir] = NoDir]
                      \/ /\ ret'[t] = "CleanupFailed"
                         /\ configDir' = configDir]_vars

\* A Cleanup found nothing to do after an earlier Cleanup cleared the path of
\* a root that Start had staged.
C12_Witness ==
  \E t \in Threads :
    /\ pc[t] = "cleanup_ret" /\ ret[t] = "ok"
    /\ snap.configDir = 0 /\ configDir = 0
    /\ ndirs >= 1 /\ \A d \in DirIds : ~dirs[d].exists

\* C13: the configured address is changed only by Start, and only when it was
\* empty at construction: an address that was supplied is never changed (the
\* addresses Start allocates all differ from the supplied one, so the address
\* equals the supplied one exactly as long as it was supplied and kept).
C13_SuppliedAddrKept ==
  [][/\ addr' # addr => \E t \in Threads : StepOf(t, StartPcs)
     /\ addr = SuppliedAddr => addr' = SuppliedAddr]_vars

\* C14: staging is all-or-nothing for Start. A Start whose staging failed
\* returns ConfigStagingFailed having spawned no child and leaving the
\* instance without a live handle, and a child is spawned only when every
\* leaf file of the virtual file set is written under the isolation root.
C14_StagingAllOrNothing ==
  /\ [](\A t \in Threads :
          pc[t] = "start_ret" /\ ret[t] = "ConfigStagingFailed"
            => ~Live(cmd) /\ cmd = snap.cmd /\ nspawn = snap.nspawn)
  /\ [][nspawn' # nspawn /\ cfgFS
          => /\ configDir # 0
             /\ dirs[configDir] = [exists |-> TRUE, files |-> NumFiles]]_vars

\* The walk failed after some but not all leaf files were written, and Start
\* returned the error without a child.
C14_Witness ==
  \E t \in Threads :
    /\ pc[t] = "start_ret" /\ ret[t] = "ConfigStagingFailed"
    /\ configDir # 0 /\ dirs[configDir].exists
    /\ dirs[configDir].files > 0 /\ dirs[configDir].files < NumFiles
    /\ ~Live(cmd) /\ nspawn = 0

\* C15: every child that was spawned and has exited is eventually reaped, so
\* no exited child stays a zombie.
C15_ExitedChildReaped ==
  \A p \in Pids : (procs[p] = "zombie") ~> (procs[p] = "reaped")

\* The events of the lines s, in order: one for each line that carries the
\* data marker and whose payload is a JSON envelope.
RECURSIVE Envelopes(_)
Envelopes(s) ==
  IF s = <<>> THEN <<>>
  ELSE LET f == Head(s)
       IN  IF f.prefix = "data: " /\ f.payload # "garbage"
             THEN <<[Type |-> f.payload]>> \o Envelopes(Tail(s))
             ELSE Envelopes(Tail(s))

\* The lines the loop of thread t is done with: all that were read, but for
\* the one it has just read and the one the scanner refused.
Handled(t) ==
  IF pc[t] = "stream_line" \/ st[t].end = "toolong"
    THEN SubSeq(st[t].sent, 1, Len(st[t].sent) - 1)
    ELSE st[t].sent

\* C16: the handler invocations are, in order and each exactly once, the
\* events of the lines read that carry the data marker and decode, and the
\* next line is read only when the handler has returned from every event of
\* the lines before it.
C16_InOrderDelivery ==
  /\ [](\A t \in Threads : st[t].delivered = Envelopes(Handled(t)))
  /\ [][\A t \in Threads :
          Len(st'[t].sent) > Len(st[t].sent)
            => pc[t] # "stream_cb" /\ st[t].delivered = Envelopes(st[t].sent)]_vars

\* Three lines were read, the middle one without the data marker; the handler
\* was called for the first and the third, which carry different events.
C16_Witness ==
  \E t \in Threads :
    /\ pc[t] = "stream_scan" /\ Len(st[t].sent) = 3
    /\ st[t].sent[2].prefix # "data: "
    /\ Len(st[t].delivered) = 2
    /\ st[t].delivered[1].Type # st[t].delivered[2].Type

\* A line with the data marker whose payload does not decode.
Malformed(f) == f.prefix = "data: " /\ f.payload = "garbage"

\* A line with the data marker whose payload decodes.
WellFormed(f) == f.prefix = "data: " /\ f.payload # "garbage"

\* C17: a malformed data line never aborts the stream: the step that handles
\* it calls no handler, returns nothing and goes on to the next line, and
\* once such a line was read the handler has still been called once for every
\* well-formed data line handled, those after the malformed line included.
C17_MalformedSkipped ==
  /\ [][\A t \in Threads :
          /\ pc[t] = "stream_line" /\ pc'[t] # pc[t]
          /\ Malformed(st[t].sent[Len(st[t].sent)])
          => /\ pc'[t] = "stream_scan"
             /\ ret'[t] = "none"
             /\ st'[t] = st[t]]_vars
  /\ [](\A t \in Threads :
          (\E i \in 1..Len(Handled(t)) : Malformed(st[t].sent[i]))
            => Len(st[t].delivered) =
                 Cardinality({j \in 1..Len(Handled(t)) :
                                WellFormed(st[t].sent[j])}))

\* A malformed data line was read first and skipped, and the handler is
\* running for the well-formed data line that came after it.
C17_Witness ==
  \E t \in Threads :
    /\ pc[t] = "stream_cb" /\ Len(st[t].sent) = 2
    /\ Malformed(st[t].sent[1]) /\ WellFormed(st[t].sent[2])
    /\ st[t].delivered = <<[Type |-> st[t].sent[2].payload]>>

\* C18: StreamEvents returns success exactly when the body ended at end of
\* input, and then the handler has been called for every line read that
\* carries an event; when reading the body fails it returns StreamError.
C18_SuccessIffCleanEnd ==
  \A t \in Threads :
    pc[t] = "stream_ret"
      => /\ ret[t] = "ok" <=> st[t].end = "eof"
         /\ ret[t] = "ok" => st[t].delivered = Envelopes(st[t].sent)
         /\ st[t].end = "transport" => ret[t] = "StreamError"

\* The body ended cleanly after three lines that each carried an event.
C18_Witness ==
  \E t \in Threads :
    /\ pc[t] = "stream_ret" /\ ret[t] = "ok" /\ st[t].end = "eof"
    /\ Len(st[t].sent) = 3 /\ Len(st[t].delivered) = 3

\* C19: a line longer than the read-buffer ceiling of 1 MiB is fatal to the
\* stream: StreamEvents returns an error without calling the handler for it,
\* after the handler was called for every event of the lines before it; a
\* line of at most 1 MiB is never refused for its size and goes on to the
\* body of the loop.
C19_CeilingIsOneMiB ==
  [][\A t \in Threads :
       Len(st'[t].sent) > Len(st[t].sent)
         => LET f == st'[t].sent[Len(st'[t].sent)]
            IN  IF f.len > maxScanTokenSize
                  THEN /\ pc'[t] = "stream_ret" /\ ret'[t] = "StreamError"
                       /\ st'[t].delivered = st[t].delivered
                       /\ st[t].delivered = Envelopes(st[t].sent)
                  ELSE pc'[t] = "stream_line"]_vars

\* C20: ParseEvent dispatches on the type tag. For each of the five known
\* tags a document whose members have the types of that tag's variant yields
\* that variant, with every member of the variant decoded from the document
\* and EventType() equal to the tag; a session.status document with sessionID
\* s1 and status type busy yields a SessionStatusEvent with session id s1 and
\* status busy.
C20_DispatchByTag ==
  LET tag == pe.data.type
      props == pe.data.properties
      out == pe.out
      VariantOf == ("server.connected" :> "ServerConnectedEvent")
                   @@ ("message.part.updated" :> "MessagePartUpdatedEvent")
                   @@ ("message.updated" :> "MessageUpdatedEvent")
                   @@ ("session.updated" :> "SessionUpdatedEvent")
                   @@ ("session.status" :> "SessionStatusEvent")
      MembersOf == ("server.connected" :> {})
                   @@ ("message.part.updated" :> {"part.id"})
                   @@ ("message.updated" :> {"info.id"})
                   @@ ("session.updated" :> {"info.id"})
                   @@ ("session.status" :> {"sessionID", "status.type"})
  IN  pe.called /\ tag \in DOMAIN VariantOf
        /\ pe.data.shape = "object"
        /\ (\A m \in MembersOf[tag] : props[m] \notin Numbers)
        => /\ ~out.err
           /\ out.variant = VariantOf[tag]
           /\ EventType(out) = tag
           /\ DOMAIN out.Properties = MembersOf[tag]
           /\ \A m \in MembersOf[tag] :
                out.Properties[m] = IF props[m] = "<absent>" THEN ""
                                    ELSE props[m]
           /\ tag = "session.status" /\ props["sessionID"] = "s1"
                /\ props["status.type"] = "busy"
                => /\ out.variant = "SessionStatusEvent"
                   /\ out.Properties["sessionID"] = "s1"
                   /\ out.Properties["status.type"] = "busy"

\* ParseEvent returned the session-status event of the document with
\* sessionID s1 and status type busy.
C20_Witness ==
  /\ pe.called
  /\ pe.data.type = "session.status"
  /\ pe.data.properties["sessionID"] = "s1"
  /\ pe.data.properties["status.type"] = "busy"
  /\ ~pe.out.err
  /\ pe.out.variant = "SessionStatusEvent"
  /\ pe.out.Properties["sessionID"] = "s1"
  /\ pe.out.Properties["status.type"] = "busy"

\* C21: for every type tag outside the five known tags and every properties
\* payload ParseEvent does not fail and yields the UnknownEvent whose
\* Properties equal the payload exactly and whose EventType() is the tag.
C21_UnknownPreserved ==
  pe.called /\ pe.data.type \notin KnownTags \cup Numbers
    => /\ ~pe.out.err
       /\ pe.out.variant = "UnknownEvent"
       /\ EventType(pe.out) = pe.data.type
       /\ pe.data.shape = "object"
       /\ pe.out.Properties =
            [p \in {q \in Paths : pe.data.properties[q] # "<absent>"} |->
               pe.data.properties[p]]

\* C22: a call of the API client returns an error if and only if the
\* transport failed (there is no response), the status of the response is not
\* 2xx, or the body does not decode; every 2xx response with a well-formed
\* body yields success.
C22_ErrorIffNotOk ==
  \A t \in Threads :
    pc[t] = "api_ret"
      => (api[t].out.err # "none"
            <=> \/ api[t].status = 0
                \/ api[t].status \notin 200..299
                \/ ~api[t].body.wf)

\* C23: on a successful response {info, parts} SendMessage returns the
\* message with the id the server assigned and the role user, and its parts
\* are the parts of the response: the one text part that was sent.
C23_MessageHasSentPart ==
  \A t \in Threads :
    pc[t] = "api_ret" /\ api[t].op = "SendMessage" /\ api[t].out.err = "none"
      => /\ api[t].out.ID = "msg_1"
         /\ api[t].out.Role = "user"
         /\ api[t].out.Parts = <<TextPart>>

\* C24: the URL of a request is "http://" followed by the address and the
\* path when the address is not empty, and the empty string when it is:
\* localhost:8080 and /session give http://localhost:8080/session.
C24_UrlConstruction ==
  \A t \in Threads :
    pc[t] = "api_do"
      => /\ addr # "" =>
              api[t].url = "http://" \o addr \o PathOf(api[t].op)
         /\ addr = "" => api[t].url = ""
         /\ addr = "localhost:8080" /\ api[t].op = "ListSessions"
              => api[t].url = "http://localhost:8080/session"
         /\ addr = "127.0.0.1:49152" /\ api[t].op = "SendMessage"
              => api[t].url = "http://127.0.0.1:49152/session/s1/message"

\* ListSessions built its request for the address localhost:8080.
C24_Witness ==
  \E t \in Threads :
    /\ pc[t] = "api_do" /\ api[t].op = "ListSessions"
    /\ addr = "localhost:8080"
    /\ api[t].url = "http://localhost:8080/session"

\* C25: an instance can always be shut down. The handle never names a child
\* that was already waited for (the state in which every Start finds the
\* handle live and no Stop can deliver its kill), and every Stop returns
\* success with the instance idle.
C25_CanAlwaysStop ==
  /\ ~(Live(cmd) /\ procs[cmd.pid] = "reaped")
  /\ \A t \in Threads : pc[t] = "stop_ret" => ret[t] = "ok" /\ ~Live(cmd)

\* C26: the exit watcher never dereferences a cleared handle: when its wait
\* has returned and it reads oc.cmd.Process again for the log line, the read
\* never ends in the nil-pointer panic, however Stop interleaves with it.
C26_WatcherNeverPanics ==
  [][\A p \in Pids : watch[p] = "log" => watch'[p] # "panic"]_vars

\* C27: no staged isolation root is leaked: every directory the instance
\* created and that still exists is the one recorded in oc.configDir, so a
\* final Cleanup removes everything the instance ever staged.
C27_NoLeakedRoot ==
  \A d \in DirIds : dirs[d] # NoDir => configDir = d

\* C28: the polling goroutine of the context-based WaitForReady ends once
\* the call has returned: no call has returned while its poller sits in
\* readyChan <- struct{}{}, a send on the call's own unbuffered channel that
\* no one will receive.
C28_PollerEnds ==
  \A t \in Threads : pc[t] = "idle" => w[t].ppc # "send"

====
